---- MODULE Spec2Model ----
(***************************************************************************)
(* AdSpark Studio: the generation pipeline of App.tsx (handleGenerate and  *)
(* the handlers around it), the form of PromptForm.tsx, the generation     *)
(* client generateVideo / generateSpeech (services/geminiService) and the  *)
(* history store getHistory / saveConfiguration (services/historyService). *)
(***************************************************************************)
EXTENDS Integers, Sequences, FiniteSets, TLC

\* ------------------------------------------------------------------ bounds

\* handleGenerate invocations in one session
MaxRuns == 2
\* form operations (edits, uploads, selections) in one session
MaxEdits == 2
\* re-queries of one operation that still answer "not done"
MaxPolls == 2
\* distinct configurations offered to saveConfiguration
NumHistConfigs == 6
\* audio source nodes created in one session
MaxNodes == 3
\* distinct videos and voiceover buffers handed to VideoResult
MaxMedia == 2
\* the last playback position of a video (positions 0..MaxTime)
MaxTime == 2
\* bytes handed to encode
MaxBytes == 4
\* bytes of raw audio handed to decodeAudioData
MaxPcmBytes == 8
\* channels asked of decodeAudioData
MaxChannels == 2
\* ApiKeyDialog continuations waiting for openSelectKey at the same time
MaxPending == 1

\* --------------------------------------------------------------- constants

\* historyService: const MAX_HISTORY_ITEMS = 5
MAX_HISTORY_ITEMS == 5

\* types.ts enums
IDLE == "IDLE"
LOADING == "LOADING"
SUCCESS == "SUCCESS"
ERROR == "ERROR"

P1080 == "1080p"
P720 == "720p"
LANDSCAPE == "16:9"
PORTRAIT == "9:16"
VEO_FAST == "veo-3.1-fast-generate-preview"
VEO_HIGH == "veo-3.1-generate-preview"
ZEPHYR == "Zephyr"
KORE == "Kore"

\* a field the payload does not carry
Absent == "<absent>"

\* option values: null is the empty sequence
None == <<>>
Some(x) == <<x>>

\* texts the code writes into requests
ExtendPrompt == "Continue the ad, showing the product in a new, exciting context."
ManualExtendPrompt == "Show the product being used in a new, exciting way."

\* ------------------------------------------------------------- the request

\* GenerateVideoParams. referenceImages is the list of images (undefined and []
\* are both the empty list), inputVideo / inputVideoObject / recordedAudioBlob
\* are 0 when undefined and the identity of the object otherwise.
StorableFields ==
  {"productName", "productDescription", "prompt", "model", "resolution",
   "aspectRatio", "autoExtend", "voiceoverMode", "voiceoverScript", "voiceName"}

\* PromptForm: the state of a freshly mounted form
DefaultForm ==
  [productName |-> "", productDescription |-> "", prompt |-> "",
   model |-> VEO_HIGH, resolution |-> P720, aspectRatio |-> PORTRAIT,
   autoExtend |-> FALSE, voiceoverMode |-> "none", voiceoverScript |-> "",
   voiceName |-> ZEPHYR,
   referenceImages |-> <<>>, inputVideo |-> 0, inputVideoObject |-> 0,
   recordedAudioBlob |-> 0]

\* saveConfiguration: const {referenceImages, inputVideo, inputVideoObject,
\* recordedAudioBlob, ...storableParams} = params
Storable(p) == [f \in StorableFields |-> p[f]]

\* JSON.stringify of one entry: the values in the object's key order
StringifyEntry(s) ==
  <<s.productName, s.productDescription, s.prompt, s.model, s.resolution,
    s.aspectRatio, s.autoExtend, s.voiceoverMode, s.voiceoverScript, s.voiceName>>

\* JSON.parse of one entry
ParseEntry(t) ==
  [productName |-> t[1], productDescription |-> t[2], prompt |-> t[3],
   model |-> t[4], resolution |-> t[5], aspectRatio |-> t[6],
   autoExtend |-> t[7], voiceoverMode |-> t[8], voiceoverScript |-> t[9],
   voiceName |-> t[10]]

\* JSON.stringify / JSON.parse of the array
StringifyList(l) == [i \in DOMAIN l |-> StringifyEntry(l[i])]
ParseList(j) == [i \in DOMAIN j |-> ParseEntry(j[i])]

\* ------------------------------------------------------- the history store

\* localStorage[HISTORY_KEY]: absent, a JSON array of entries, a text that is
\* not JSON, or JSON that is no array
AbsentStore == [kind |-> "absent", json |-> <<>>]
ListStore(l) == [kind |-> "list", json |-> StringifyList(l)]
CorruptStore == [kind |-> "corrupt", json |-> <<>>]
NonListStore == [kind |-> "nonlist", json |-> <<>>]

\* getHistory: the value it returns. A missing key gives [], a text that does
\* not parse gives [] (the catch), anything else gives what JSON.parse gives.
GetHistoryResult(st) ==
  IF st.kind = "list" THEN [isList |-> TRUE, items |-> ParseList(st.json)]
  ELSE IF st.kind = "nonlist" THEN [isList |-> FALSE, items |-> <<>>]
  ELSE [isList |-> TRUE, items |-> <<>>]

\* (mutant) the catch returns [] and leaves the key alone
GetHistoryStoreKeeps(st) == st

\* getHistory: the store it leaves (the catch removes the key)
GetHistoryStore(st) == IF st.kind = "corrupt" THEN AbsentStore ELSE st

\* getHistory, lines 110-118: JSON.parse throws and the catch runs
GetHistoryCaught(st) == st.kind = "corrupt"

Min(a, b) == IF a < b THEN a ELSE b

\* (mutant) slice(0, MAX_HISTORY_ITEMS + 1)
TrimOneMore(l) == SubSeq(l, 1, Min(Len(l), MAX_HISTORY_ITEMS + 1))

\* newHistory.slice(0, MAX_HISTORY_ITEMS)
Trim(l) == SubSeq(l, 1, Min(Len(l), MAX_HISTORY_ITEMS))

\* (mutant) the filter compares object identity and removes nothing
FilterNothing(items, newConfigString) == items

\* history.filter(item => JSON.stringify(item) !== newConfigString)
FilterHistory(items, newConfigString) ==
  SelectSeq(items, LAMBDA item : StringifyEntry(item) # newConfigString)

\* (mutant) the new configuration is appended instead of prepended
SaveAppendsStore(st, params) ==
  LET history == GetHistoryResult(st)
      storableParams == Storable(params)
      filteredHistory == FilterHistory(history.items, StringifyEntry(storableParams))
  IN  IF history.isList
      THEN ListStore(Trim(filteredHistory \o <<storableParams>>))
      ELSE GetHistoryStore(st)

\* saveConfiguration: the store it leaves. history.filter throws when the
\* parsed value is no array; the catch logs and writes nothing.
SaveConfigurationStore(st, params) ==
  LET history == GetHistoryResult(st)
      storableParams == Storable(params)
      newConfigString == StringifyEntry(storableParams)
      filteredHistory == FilterHistory(history.items, newConfigString)
      newHistory == <<storableParams>> \o filteredHistory
      trimmedHistory == Trim(newHistory)
  IN  IF history.isList THEN ListStore(trimmedHistory) ELSE GetHistoryStore(st)

\* saveConfiguration, lines 126-145: a statement of the try block throws and
\* the catch runs: history.filter on a parsed value that is no array, or
\* localStorage.setItem (writeFails: the quota is exceeded)
SaveCaught(st, writeFails) == ~GetHistoryResult(st).isList \/ writeFails

\* (mutant) setItem is called after the try block
SaveThrowsOnWrite(st, writeFails) ==
  GetHistoryResult(st).isList /\ writeFails

\* saveConfiguration: an error leaves the call. Every statement is inside the
\* try block and the catch only logs.
SaveThrows(st, writeFails) == FALSE

\* how a saveConfiguration call went
SaveOp(st, writeFails) ==
  IF SaveThrows(st, writeFails) THEN "save threw"
  ELSE IF SaveCaught(st, writeFails) THEN "save caught"
  ELSE "save"

\* --------------------------------------------------- the generation client

\* generateVideo, lines 27-66: the payload handed to ai.models.generateVideos.
\* The aspect ratio is left out when an input video is given, the prompt when
\* it is empty; video is 0 when no input video is sent.
BuildPayload(p) ==
  [model |-> p.model,
   numberOfVideos |-> 1,
   resolution |-> p.resolution,
   aspectRatio |-> IF p.inputVideoObject = 0 THEN p.aspectRatio ELSE Absent,
   prompt |-> IF p.prompt # "" THEN p.prompt ELSE Absent,
   referenceImages |-> p.referenceImages,
   video |-> p.inputVideoObject]

\* messages of the errors generateVideo and generateSpeech throw themselves;
\* a message is the sequence of its parts
MsgNoVideosWereGenerated == <<"No videos were generated.">>
MsgMissingUri == <<"Generated video is missing a URI.">>
MsgNoVideosGenerated == <<"No videos generated.">>
MsgFetchFailed == <<"Failed to fetch video: ", "403">>
MsgNoAudio == <<"Audio generation failed, no data received.">>

\* what a completed operation can hold
Responses == {"ok", "empty", "nouri", "noresponse"}

\* (mutant) an empty list of videos is not tested for; its missing first
\* video is reported as a video without URI
CompletionErrorNoLengthTest(resp) ==
  IF resp = "noresponse" THEN Some(MsgNoVideosGenerated)
  ELSE IF resp \in {"empty", "nouri"} THEN Some(MsgMissingUri)
  ELSE None

\* (mutant) the URI of the first video is not tested for
CompletionErrorNoUriTest(resp) ==
  IF resp = "noresponse" THEN Some(MsgNoVideosGenerated)
  ELSE IF resp = "empty" THEN Some(MsgNoVideosWereGenerated)
  ELSE None

\* generateVideo, lines 78-107: the error a completed operation raises before
\* any fetch is issued (None when the first video has a URI)
CompletionError(resp) ==
  IF resp = "noresponse" THEN Some(MsgNoVideosGenerated)
  ELSE IF resp = "empty" THEN Some(MsgNoVideosWereGenerated)
  ELSE IF resp = "nouri" THEN Some(MsgMissingUri)
  ELSE None

\* HTTP statuses the asset fetch is answered with
FetchStatuses == {200, 403}

\* (mutant) res.ok is not tested
FetchErrorNoOkTest(status) == None

\* generateVideo, lines 94-98: the error raised for an answer whose status is
\* not ok (res.ok: 200..299); its message carries the status
FetchError(status) ==
  IF status \in 200..299 THEN None
  ELSE Some(<<"Failed to fetch video: ", ToString(status)>>)

\* messages of errors the remote service, the network or the decoder raise
RemoteErrors ==
  {<<"Requested entity was not found.">>, <<"Deadline exceeded">>}

\* (mutant) the message is searched as it is
ToLowerCaseNot(part) == part

\* String.prototype.includes on a message; toLowerCase of the parts in use
Includes(msg, part) == \E i \in DOMAIN msg : msg[i] = part
ToLowerCase(part) ==
  IF part \in {"Permission denied", "PERMISSION DENIED"}
  THEN "permission denied"
  ELSE IF part = "API key not valid" THEN "api key not valid"
  ELSE IF part = "API_KEY_INVALID" THEN "api_key_invalid"
  ELSE IF part = "Requested entity was not found."
  THEN "requested entity was not found."
  ELSE part
IncludesLower(msg, part) == \E i \in DOMAIN msg : ToLowerCase(msg[i]) = part

\* handleGenerate, lines 121-150: the message shown and whether the API key
\* dialog opens
Classify(msg) ==
  IF Includes(msg, "Requested entity was not found.")
  THEN [message |-> <<"Model not found. This can be caused by an invalid API key or permission issues. Please check your API key.">>,
        dialog |-> TRUE]
  ELSE IF \/ Includes(msg, "API_KEY_INVALID")
          \/ Includes(msg, "API key not valid")
          \/ IncludesLower(msg, "permission denied")
  THEN [message |-> <<"Your API key is invalid or lacks permissions. Please select a valid, billing-enabled API key.">>,
        dialog |-> TRUE]
  ELSE [message |-> <<"Video generation failed: ">> \o msg, dialog |-> FALSE]

\* (mutant) the extension request keeps the caller's resolution
ExtendParamsKeepsResolution(p, video) ==
  [p EXCEPT !.prompt = ExtendPrompt, !.inputVideoObject = video]

\* (mutant) a do-while loop: the operation is queried again whatever its flag
LoopContinuesAlways(done) == TRUE

\* (mutant) the test of the loop is inverted
LoopContinuesWhileDone(done) == done

\* generateVideo, line 72: while (!operation.done)
LoopContinues(done) == ~done

\* handleGenerate, lines 92-97: the request of the extension stage
ExtendParams(p, video) ==
  [p EXCEPT !.prompt = ExtendPrompt,
            !.inputVideoObject = video,
            !.resolution = P720]

\* (mutant) the result of the first generation is kept as the final one
InitialResult(got) == got[1]

\* handleGenerate, lines 87-103: finalResult, the result of the extension when
\* it ran and of the initial generation otherwise (got: the results so far)
FinalResult(got) == got[Len(got)]

\* (mutant) the tts branch does not test the voiceover mode
VoiceoverBranchNoModeTest(p) ==
  IF p.voiceoverScript # "" \/ p.voiceName # "" THEN "tts" ELSE "none"

\* (mutant) the record branch does not test for a recorded blob
VoiceoverBranchNoBlobTest(p) ==
  IF p.voiceoverMode = "tts" /\ p.voiceoverScript # "" /\ p.voiceName # ""
  THEN "tts"
  ELSE IF p.voiceoverMode = "record" THEN "record" ELSE "none"

\* handleGenerate, lines 107 and 110: which voiceover branch is taken
VoiceoverBranch(p) ==
  IF p.voiceoverMode = "tts" /\ p.voiceoverScript # "" /\ p.voiceName # ""
  THEN "tts"
  ELSE IF p.voiceoverMode = "record" /\ p.recordedAudioBlob # 0
  THEN "record"
  ELSE "none"

\* ------------------------------------------------------------------- state

VARIABLES
  store,      \* localStorage[HISTORY_KEY]
  lastOp,     \* the history-service call made last, "load" or "save", and
              \* how it went: " caught" when its catch logged an error,
              \* " threw" when an error left the call
  saveArg,    \* the argument of the last saveConfiguration call (or None)
  loaded,     \* what the last getHistory call returned
  \* App.tsx useState
  appState, videoUrl, voiceoverBuffer, loadingTask, errorMessage, lastConfig,
  lastVideoObject, lastVideoBlob, showApiKeyDialog, initialFormValues,
  form,       \* PromptForm params (DefaultForm while the form is not mounted)
  aistudio,   \* whether the host provides window.aistudio
  player,     \* the VideoResult on the page, its video element and its audio
  util,       \* a call of one of the functions of utils.ts and its result
  mountCheck, \* the key check of App's mount effect: "pending" or "done"
  runs,       \* the handleGenerate invocations, by number
  nruns,      \* how many there were
  pending,    \* handleApiKeyDialogContinue calls waiting for openSelectKey
  edits,      \* form operations so far
  nextVideo   \* the number of the next video the service returns

histVars == <<store, lastOp, saveArg, loaded>>

appVars ==
  <<appState, videoUrl, voiceoverBuffer, loadingTask, errorMessage, lastConfig,
    lastVideoObject, lastVideoBlob, showApiKeyDialog, initialFormValues>>

ctlVars ==
  <<form, aistudio, player, util, mountCheck, runs, nruns, pending, edits, nextVideo>>

vars == <<histVars, appVars, ctlVars>>

NoBuffer == [kind |-> "null", run |-> 0]

\* no call of a function of utils.ts
NoUtil == [fn |-> "none"]

\* no VideoResult on the page. shown: the component is mounted; url, buffer:
\* its props videoUrl and voiceoverBuffer (0: null); effectPending: a render
\* was committed whose effect has not run yet; listen: the buffer the attached
\* transport listeners were created with (0: none attached); onCurrent: they
\* are attached to the video element now on the page; paused, muted: the
\* video element; ref: audioSourceRef.current (0: null); nodes: the audio
\* source nodes created so far, each "started" or "stopped"; offsets: the
\* offset each node was started at; time: currentTime of the video element;
\* event: the last event the video element fired ("none" after a render or an
\* effect).
NoPlayer ==
  [shown |-> FALSE, url |-> 0, buffer |-> 0, effectPending |-> FALSE,
   listen |-> 0, onCurrent |-> FALSE, paused |-> TRUE, muted |-> FALSE,
   ref |-> 0, nodes |-> <<>>, offsets |-> <<>>, time |-> 0, event |-> "none"]

\* one handleGenerate invocation: where it is suspended (pc), the request it
\* was called with, the stage of generateVideo it is in, the payloads it has
\* sent, the videos it got back, its polls of the current operation, the
\* speech-synthesis calls it made, the last completed operation's content and
\* how it ended; seen is the log of the done flags the current operation was
\* returned with (by generateVideos first, then by each getVideosOperation).
\* A run keeps poll count and log until its generateVideo call returns or
\* throws. began numbers the runs in the order in which they passed the key
\* check and set LOADING (0: not yet). status is the HTTP status of the last
\* answer to the run's asset fetch (0: none yet).
NoRun ==
  [pc |-> "none", params |-> DefaultForm, stage |-> 0, sent |-> <<>>,
   got |-> <<>>, polls |-> 0, seen |-> <<>>, speech |-> 0, resp |-> "none",
   outcome |-> "none", began |-> 0, status |-> 0]

\* ---------------------------------------------- the history store, driven

PromptPool == <<"a", "b", "c", "d", "e", "f", "g", "h">>

\* the requests offered to saveConfiguration: NumHistConfigs configurations,
\* each with and without the fields that are not serialized
HistParams ==
  {[DefaultForm EXCEPT !.productName = "N", !.productDescription = "D",
                       !.prompt = PromptPool[i], !.referenceImages = img]
     : i \in 1..NumHistConfigs, img \in {<<>>, <<"img">>}}

HistInit ==
  /\ store = AbsentStore
  /\ lastOp = "none"
  /\ saveArg = None
  /\ loaded = <<>>
  /\ appState = IDLE /\ videoUrl = 0 /\ voiceoverBuffer = NoBuffer
  /\ loadingTask = None /\ errorMessage = None /\ lastConfig = None
  /\ lastVideoObject = 0 /\ lastVideoBlob = 0 /\ showApiKeyDialog = FALSE
  /\ initialFormValues = None
  /\ form = DefaultForm /\ aistudio = FALSE /\ mountCheck = "done"
  /\ player = NoPlayer
  /\ util = NoUtil
  /\ runs = [r \in 1..MaxRuns |-> NoRun] /\ nruns = 0 /\ pending = <<>>
  /\ edits = 0 /\ nextVideo = 1

\* getHistory()
Load ==
  /\ store' = GetHistoryStore(store)
  /\ loaded' = GetHistoryResult(store).items
  /\ lastOp' = IF GetHistoryCaught(store) THEN "load caught" ELSE "load"
  /\ UNCHANGED <<saveArg, appVars, ctlVars>>

\* saveConfiguration(params), localStorage.setItem succeeding
Save ==
  \E params \in HistParams :
    /\ store' = SaveConfigurationStore(store, params)
    /\ loaded' = GetHistoryResult(store).items
    /\ saveArg' = Some(params)
    /\ lastOp' = SaveOp(store, FALSE)
    /\ UNCHANGED <<appVars, ctlVars>>

HistNext == Load \/ Save

SpecHistory == HistInit /\ [][HistNext]_vars

\* ------------------------------ the history store on any persisted value

\* saveConfiguration(params) with localStorage.setItem throwing: what
\* getHistory did to the key stays, nothing is written
SaveFails ==
  \E params \in HistParams :
    /\ GetHistoryResult(store).isList
    /\ store' = GetHistoryStore(store)
    /\ loaded' = GetHistoryResult(store).items
    /\ saveArg' = Some(params)
    /\ lastOp' = SaveOp(store, TRUE)
    /\ UNCHANGED <<appVars, ctlVars>>

\* localStorage is shared with other pages and builds of the origin: the key
\* can hold anything when the page loads
StoreInit ==
  /\ store \in {AbsentStore, CorruptStore, NonListStore, ListStore(<<>>),
                ListStore(<<Storable(DefaultForm)>>)}
  /\ lastOp = "none"
  /\ saveArg = None
  /\ loaded = <<>>
  /\ appState = IDLE /\ videoUrl = 0 /\ voiceoverBuffer = NoBuffer
  /\ loadingTask = None /\ errorMessage = None /\ lastConfig = None
  /\ lastVideoObject = 0 /\ lastVideoBlob = 0 /\ showApiKeyDialog = FALSE
  /\ initialFormValues = None
  /\ form = DefaultForm /\ aistudio = FALSE /\ mountCheck = "done"
  /\ player = NoPlayer
  /\ util = NoUtil
  /\ runs = [r \in 1..MaxRuns |-> NoRun] /\ nruns = 0 /\ pending = <<>>
  /\ edits = 0 /\ nextVideo = 1

StoreNext == Load \/ Save \/ SaveFails

SpecStore == StoreInit /\ [][StoreNext]_vars

\* ------------------------------------------------------------ PromptForm

\* useEffect on initialValues: setParams(prev => ({...prev, ...initialValues}))
\* on a fresh form, or the defaults when there are none
MountForm(iv) == IF iv = None THEN DefaultForm ELSE iv[1]

\* handleHistorySelect: setParams(prev => ({...prev, ...selectedParams}))
MergeStorable(prev, selected) ==
  [f \in DOMAIN prev |-> IF f \in StorableFields THEN selected[f] ELSE prev[f]]

\* handleFileChange: the image replaces the list and locks the settings
WithImage(prev, img) ==
  [prev EXCEPT !.referenceImages = <<img>>, !.model = VEO_HIGH,
               !.resolution = P720, !.aspectRatio = LANDSCAPE]

\* handleRemoveImage
WithoutImage(prev) == [prev EXCEPT !.referenceImages = <<>>, !.model = VEO_HIGH]

isImageUsed == Len(form.referenceImages) > 0

\* what the user can enter into the named control
FieldValues(name) ==
  CASE name = "productName" -> {"N"}
    [] name = "productDescription" -> {"D"}
    [] name = "prompt" -> {"P"}
    [] name = "voiceoverScript" -> {"S"}
    [] name = "resolution" -> {P720, P1080}
    [] name = "aspectRatio" -> {LANDSCAPE, PORTRAIT}
    [] name = "model" -> {VEO_HIGH, VEO_FAST}
    [] name = "voiceoverMode" -> {"none", "tts", "record"}
    [] name = "voiceName" -> {ZEPHYR, KORE}

InputNames ==
  {"productName", "productDescription", "prompt", "voiceoverScript",
   "resolution", "aspectRatio", "model", "voiceoverMode", "voiceName"}

\* PromptForm render: the control is on the page and enabled. The three video
\* selects are not rendered when extending and are disabled with an image;
\* script and voice are rendered in tts mode only.
Editable(name) ==
  IF name \in {"resolution", "aspectRatio", "model"}
  THEN form.inputVideoObject = 0 /\ ~isImageUsed
  ELSE IF name \in {"voiceoverScript", "voiceName"}
  THEN form.voiceoverMode = "tts"
  ELSE TRUE

\* a form operation: the form is on the page (the key check of the mount
\* effect has settled by the time of the first user event)
FormOp ==
  /\ appState = IDLE
  /\ mountCheck = "done"
  /\ edits < MaxEdits
  /\ edits' = edits + 1

FormFrame ==
  UNCHANGED <<histVars, appVars, aistudio, player, util, mountCheck, runs, nruns, pending,
              nextVideo>>

\* handleInputChange
HandleInputChange ==
  /\ FormOp
  /\ \E name \in InputNames : \E value \in FieldValues(name) :
       /\ Editable(name)
       /\ value # form[name]
       /\ form' = [form EXCEPT ![name] = value]
  /\ FormFrame

\* handleCheckboxChange (autoExtend); the box is disabled when extending
HandleCheckboxChange ==
  /\ FormOp
  /\ form.inputVideoObject = 0
  /\ form' = [form EXCEPT !.autoExtend = ~form.autoExtend]
  /\ FormFrame

\* handleFileChange; the file input is rendered while no image is set
HandleFileChange ==
  /\ FormOp
  /\ ~isImageUsed
  /\ form' = WithImage(form, "img")
  /\ FormFrame

HandleRemoveImage ==
  /\ FormOp
  /\ isImageUsed
  /\ form' = WithoutImage(form)
  /\ FormFrame

\* handleGenerateScript: the script the service drafted ('' passes through)
HandleGenerateScript ==
  /\ FormOp
  /\ form.voiceoverMode = "tts"
  /\ form.productName # "" /\ form.productDescription # ""
  /\ \E script \in {"", "S"} :
       /\ script # form.voiceoverScript
       /\ form' = [form EXCEPT !.voiceoverScript = script]
  /\ FormFrame

\* AudioRecorder onRecordingComplete
HandleRecordingComplete ==
  /\ FormOp
  /\ form.voiceoverMode = "record"
  /\ form.recordedAudioBlob = 0
  /\ form' = [form EXCEPT !.recordedAudioBlob = 1]
  /\ FormFrame

\* handlePresetSelect
HandlePresetSelect ==
  /\ FormOp
  /\ form.prompt # "Preset"
  /\ form' = [form EXCEPT !.prompt = "Preset"]
  /\ FormFrame

\* handleHistorySelect on an entry of the list HistoryDialog was rendered with
HandleHistorySelect ==
  /\ FormOp
  /\ GetHistoryResult(store).isList
  /\ \E i \in DOMAIN GetHistoryResult(store).items :
       form' = MergeStorable(form, GetHistoryResult(store).items[i])
  /\ store' = GetHistoryStore(store)
  /\ loaded' = GetHistoryResult(store).items
  /\ lastOp' = "load"
  /\ UNCHANGED <<saveArg, appVars, aistudio, player, util, mountCheck, runs, nruns, pending,
                 nextVideo>>

\* ------------------------------------------------------------ handleGenerate

\* (mutant) the configuration remembered is the one of the extension stage
SetLastConfigOfExtension(params) ==
  [params EXCEPT !.prompt = ExtendPrompt, !.resolution = P720]

\* handleGenerate, line 80: setLastConfig(params)
SetLastConfig(params) == params

\* how many runs have set LOADING so far
Begun == Cardinality({q \in 1..MaxRuns : runs[q].began > 0})

\* handleGenerate, lines 78-86, and generateVideo up to its first await: the
\* payload of the initial stage is sent
Begin(r, p) ==
  /\ appState' = LOADING
  /\ errorMessage' = None
  /\ lastConfig' = Some(SetLastConfig(p))
  /\ initialFormValues' = None
  /\ loadingTask' = Some("Generating initial ad scene...")
  /\ form' = DefaultForm
  /\ runs' = [runs EXCEPT ![r] = [@ EXCEPT !.pc = "submit", !.params = p,
                                           !.stage = 1,
                                           !.began = Begun + 1,
                                           !.sent = <<BuildPayload(p)>>]]

\* a call of handleGenerate(p), up to its first await
Invoke(p) ==
  /\ nruns < MaxRuns
  /\ nruns' = nruns + 1
  /\ IF aistudio
     THEN /\ runs' = [runs EXCEPT ![nruns + 1] =
                        [@ EXCEPT !.pc = "keycheck", !.params = p]]
          /\ UNCHANGED <<appState, errorMessage, lastConfig, initialFormValues,
                         loadingTask, form>>
     ELSE Begin(nruns + 1, p)

\* the catch and finally of handleGenerate
Catch(r, msg, run) ==
  /\ errorMessage' = Some(Classify(msg).message)
  /\ appState' = ERROR
  /\ showApiKeyDialog' = (showApiKeyDialog \/ Classify(msg).dialog)
  /\ loadingTask' = None
  /\ form' = DefaultForm
  /\ runs' = [runs EXCEPT ![r] = [run EXCEPT !.pc = "done",
                                             !.outcome = "error",
                                             !.polls = 0, !.seen = <<>>]]
  /\ UNCHANGED <<histVars, videoUrl, voiceoverBuffer, lastConfig,
                 lastVideoObject, lastVideoBlob, initialFormValues, aistudio,
                 player, mountCheck, nruns, pending, edits, nextVideo>>

FailRun(r, msg, run) == Catch(r, msg, run) /\ UNCHANGED util

\* the same for an error raised while the last completed operation held resp
Fail(r, msg, resp) == FailRun(r, msg, [runs[r] EXCEPT !.resp = resp])

\* setVoiceoverBuffer(audioBuffer); setAppState(SUCCESS); finally
Succeed(r, buffer) ==
  /\ voiceoverBuffer' = buffer
  /\ appState' = SUCCESS
  /\ loadingTask' = None
  /\ form' = DefaultForm

\* (mutant) the return after setShowApiKeyDialog(true) is missing
NoKeySelectedGoesOn(r) ==
  /\ showApiKeyDialog' = TRUE
  /\ Begin(r, runs[r].params)

\* handleGenerate, lines 64-75: no key is selected, or the check threw: the
\* dialog is opened and handleGenerate returns
NoKeySelected(r) ==
  /\ showApiKeyDialog' = TRUE
  /\ runs' = [runs EXCEPT ![r] = [@ EXCEPT !.pc = "done",
                                           !.outcome = "nokey"]]
  /\ UNCHANGED <<appState, errorMessage, lastConfig, initialFormValues,
                 loadingTask, form>>

\* window.aistudio.hasSelectedApiKey() answers
KeyCheckReturn(r) ==
  /\ runs[r].pc = "keycheck"
  /\ \E answer \in {"selected", "none", "throws"} :
       IF answer = "selected"
       THEN /\ Begin(r, runs[r].params)
            /\ UNCHANGED showApiKeyDialog
       ELSE NoKeySelected(r)
  /\ UNCHANGED <<histVars, videoUrl, voiceoverBuffer, lastVideoObject,
                 lastVideoBlob, aistudio, player, util, mountCheck, nruns, pending, edits,
                 nextVideo>>

\* generateVideo, lines 69-94: the operation comes back from generateVideos or
\* getVideosOperation. Not done: the loop sleeps. Done: the response is checked
\* and the asset fetch is issued.
OperationReturn(r) ==
  /\ runs[r].pc \in {"submit", "query"}
  /\ \/ \E e \in RemoteErrors : Fail(r, e, runs[r].resp)
     \/ \E done \in BOOLEAN :
          /\ done \/ runs[r].polls < MaxPolls
          /\ IF LoopContinues(done)
             THEN /\ runs' = [runs EXCEPT ![r] =
                       [@ EXCEPT !.pc = "sleep", !.seen = Append(@, done)]]
                  /\ UNCHANGED <<histVars, appVars, form, aistudio, player, util,
                                 mountCheck, nruns, pending, edits, nextVideo>>
             ELSE \E resp \in Responses :
                    IF CompletionError(resp) # None
                    THEN Fail(r, CompletionError(resp)[1], resp)
                    ELSE /\ runs' = [runs EXCEPT ![r] =
                              [@ EXCEPT !.pc = "fetch", !.resp = resp,
                                        !.seen = Append(@, done)]]
                         /\ UNCHANGED <<histVars, appVars, form, aistudio, player, util,
                                        mountCheck, nruns, pending, edits,
                                        nextVideo>>

\* generateVideo, lines 72-75: the 10 s timer fires and the operation is
\* queried again
PollAgain(r) ==
  /\ runs[r].pc = "sleep"
  /\ runs' = [runs EXCEPT ![r] = [@ EXCEPT !.pc = "query", !.polls = @ + 1]]
  /\ UNCHANGED <<histVars, appVars, form, aistudio, player, util, mountCheck, nruns,
                 pending, edits, nextVideo>>

\* generateVideo, lines 94-103: the fetch answers. A status that is not ok
\* throws; otherwise the body is read and generateVideo returns video number
\* nextVideo, and handleGenerate goes on (lines 87-120) to its next await or
\* to its end.
FetchReturn(r) ==
  /\ runs[r].pc = "fetch"
  /\ \E status \in FetchStatuses :
     \/ /\ FetchError(status) # None
        /\ FailRun(r, FetchError(status)[1],
                   [runs[r] EXCEPT !.status = status])
     \/ /\ FetchError(status) = None
        /\ nextVideo' = nextVideo + 1
        /\ LET run == runs[r]
               p == run.params
               got == Append(run.got, nextVideo)
           IN  IF run.stage = 1 /\ p.autoExtend
               THEN /\ loadingTask' = Some("Extending ad to full length...")
                    /\ runs' = [runs EXCEPT ![r] =
                         [@ EXCEPT !.status = status, !.pc = "submit", !.stage = 2, !.polls = 0,
                                   !.seen = <<>>, !.got = got,
                                   !.sent = Append(@, BuildPayload(
                                              ExtendParams(p, nextVideo)))]]
                    /\ UNCHANGED <<appState, videoUrl, voiceoverBuffer,
                                   lastVideoObject, lastVideoBlob, form>>
               ELSE /\ videoUrl' = FinalResult(got)
                    /\ lastVideoBlob' = FinalResult(got)
                    /\ lastVideoObject' = FinalResult(got)
                    /\ IF VoiceoverBranch(p) = "tts"
                       THEN /\ loadingTask' = Some("Crafting AI voiceover...")
                            /\ runs' = [runs EXCEPT ![r] =
                                 [@ EXCEPT !.status = status, !.pc = "speech", !.got = got,
                                           !.polls = 0, !.seen = <<>>,
                                           !.speech = @ + 1]]
                            /\ UNCHANGED <<appState, voiceoverBuffer, form>>
                       ELSE IF VoiceoverBranch(p) = "record"
                       THEN /\ loadingTask' = Some("Processing recorded audio...")
                            /\ runs' = [runs EXCEPT ![r] =
                                 [@ EXCEPT !.status = status, !.pc = "decode", !.got = got,
                                           !.polls = 0, !.seen = <<>>]]
                            /\ UNCHANGED <<appState, voiceoverBuffer, form>>
                       ELSE /\ Succeed(r, NoBuffer)
                            /\ runs' = [runs EXCEPT ![r] =
                                 [@ EXCEPT !.status = status, !.pc = "done", !.got = got,
                                           !.polls = 0, !.seen = <<>>,
                                           !.outcome = "success"]]
        /\ UNCHANGED <<histVars, errorMessage, lastConfig, showApiKeyDialog,
                       initialFormValues, aistudio, player, util, mountCheck, nruns, pending,
                       edits>>

\* generateSpeech answers: an error, no audio payload, or audio that is decoded
SpeechReturn(r) ==
  /\ runs[r].pc = "speech"
  /\ \/ \E e \in RemoteErrors : Fail(r, e, runs[r].resp)
     \/ Fail(r, MsgNoAudio, runs[r].resp)
     \/ /\ Succeed(r, [kind |-> "tts", run |-> r])
        /\ runs' = [runs EXCEPT ![r] = [@ EXCEPT !.pc = "done",
                                                 !.outcome = "success"]]
        /\ UNCHANGED <<histVars, videoUrl, errorMessage, lastConfig,
                       lastVideoObject, lastVideoBlob, showApiKeyDialog,
                       initialFormValues, aistudio, player, util, mountCheck, nruns, pending,
                       edits, nextVideo>>

\* recordedAudioBlob.arrayBuffer() is read and audioContext.decodeAudioData
\* answers
DecodeReturn(r) ==
  /\ runs[r].pc = "decode"
  /\ \/ Fail(r, <<"Unable to decode audio data">>, runs[r].resp)
     \/ /\ Succeed(r, [kind |-> "rec", run |-> r])
        /\ runs' = [runs EXCEPT ![r] = [@ EXCEPT !.pc = "done",
                                                 !.outcome = "success"]]
        /\ UNCHANGED <<histVars, videoUrl, errorMessage, lastConfig,
                       lastVideoObject, lastVideoBlob, showApiKeyDialog,
                       initialFormValues, aistudio, player, util, mountCheck, nruns, pending,
                       edits, nextVideo>>

\* ------------------------------------------------------ the App handlers

\* handleSubmit; the browser refuses to submit while a required field is empty
HandleSubmit ==
  /\ appState = IDLE
  /\ mountCheck = "done"
  /\ form.productName # "" /\ form.productDescription # "" /\ form.prompt # ""
  /\ Invoke(form)
  /\ UNCHANGED <<histVars, videoUrl, voiceoverBuffer, lastVideoObject,
                 lastVideoBlob, showApiKeyDialog, aistudio, player, util, mountCheck,
                 pending, edits, nextVideo>>

\* VideoResult is on the page
ResultShown == appState = SUCCESS /\ videoUrl # 0

\* the error panel with its Try Again button is on the page
ErrorShown ==
  \/ appState = ERROR /\ errorMessage # None
  \/ appState = SUCCESS /\ videoUrl = 0

\* handleRetry (the Retry button of VideoResult)
HandleRetry ==
  /\ ResultShown
  /\ lastConfig # None
  /\ Invoke(lastConfig[1])
  /\ UNCHANGED <<histVars, videoUrl, voiceoverBuffer, lastVideoObject,
                 lastVideoBlob, showApiKeyDialog, aistudio, player, util, mountCheck,
                 pending, edits, nextVideo>>

\* handleNewVideo
NewVideo ==
  /\ appState' = IDLE
  /\ videoUrl' = 0
  /\ voiceoverBuffer' = NoBuffer
  /\ errorMessage' = None
  /\ lastConfig' = None
  /\ lastVideoObject' = 0
  /\ lastVideoBlob' = 0
  /\ initialFormValues' = None
  /\ form' = MountForm(None)
  /\ UNCHANGED <<histVars, loadingTask, showApiKeyDialog, aistudio, player, util, mountCheck,
                 runs, nruns, pending, edits, nextVideo>>

HandleNewVideo ==
  /\ ResultShown
  /\ NewVideo

\* handleTryAgainFromError
HandleTryAgainFromError ==
  /\ ErrorShown
  /\ IF lastConfig # None
     THEN /\ initialFormValues' = lastConfig
          /\ appState' = IDLE
          /\ errorMessage' = None
          /\ form' = MountForm(lastConfig)
          /\ UNCHANGED <<histVars, videoUrl, voiceoverBuffer, loadingTask,
                         lastConfig, lastVideoObject, lastVideoBlob,
                         showApiKeyDialog, aistudio, player, util, mountCheck, runs, nruns,
                         pending, edits, nextVideo>>
     ELSE NewVideo

\* VideoResult canExtend
canExtend ==
  /\ lastConfig # None
  /\ lastConfig[1].resolution = P720
  /\ ~lastConfig[1].autoExtend

\* handleExtend, lines 203-214: the values the form is repopulated with
ExtendFormValues(config, blob, video) ==
  [config EXCEPT !.prompt = ManualExtendPrompt,
                 !.inputVideo = blob,
                 !.inputVideoObject = video,
                 !.resolution = P720,
                 !.autoExtend = FALSE,
                 !.voiceoverMode = "none",
                 !.voiceoverScript = ""]

\* handleExtend
HandleExtend ==
  /\ ResultShown
  /\ canExtend
  /\ lastVideoBlob # 0 /\ lastVideoObject # 0
  /\ initialFormValues' =
       Some(ExtendFormValues(lastConfig[1], lastVideoBlob, lastVideoObject))
  /\ appState' = IDLE
  /\ videoUrl' = 0
  /\ voiceoverBuffer' = NoBuffer
  /\ errorMessage' = None
  /\ form' = MountForm(initialFormValues')
  /\ UNCHANGED <<histVars, loadingTask, lastConfig, lastVideoObject,
                 lastVideoBlob, showApiKeyDialog, aistudio, player, util, mountCheck, runs,
                 nruns, pending, edits, nextVideo>>

\* handleApiKeyDialogContinue, line 167, with the appState and lastConfig of
\* the render the handler was created in: whether it goes on to handleRetry
ContinueRetries(state, config) == state = ERROR /\ config # None

\* handleApiKeyDialogContinue up to its await of openSelectKey, or to its end
\* when there is no window.aistudio. A handler that will not retry has no
\* effect after the await and is not kept.
HandleApiKeyDialogContinue ==
  /\ showApiKeyDialog
  /\ showApiKeyDialog' = FALSE
  /\ IF ~ContinueRetries(appState, lastConfig)
     THEN UNCHANGED <<appState, errorMessage, lastConfig, initialFormValues,
                      loadingTask, form, runs, nruns, pending>>
     ELSE IF aistudio
     THEN /\ Len(pending) < MaxPending
          /\ pending' = Append(pending, lastConfig[1])
          /\ UNCHANGED <<appState, errorMessage, lastConfig, initialFormValues,
                         loadingTask, form, runs, nruns>>
     ELSE /\ Invoke(lastConfig[1])
          /\ UNCHANGED pending
  /\ UNCHANGED <<histVars, videoUrl, voiceoverBuffer, lastVideoObject,
                 lastVideoBlob, aistudio, player, util, mountCheck, edits, nextVideo>>

\* openSelectKey() settles: handleRetry() of the handler's render calls
\* handleGenerate with that render's lastConfig; nothing happens when
\* openSelectKey rejected
SelectKeyReturn ==
  /\ pending # <<>>
  /\ pending' = Tail(pending)
  /\ \/ Invoke(Head(pending))
     \/ UNCHANGED <<appState, errorMessage, lastConfig, initialFormValues,
                    loadingTask, form, runs, nruns>>
  /\ UNCHANGED <<histVars, videoUrl, voiceoverBuffer, lastVideoObject,
                 lastVideoBlob, showApiKeyDialog, aistudio, player, util, mountCheck, edits,
                 nextVideo>>

\* App mount effect, lines 37-54: hasSelectedApiKey() answers
MountCheckReturn ==
  /\ mountCheck = "pending"
  /\ mountCheck' = "done"
  /\ \E answer \in {"selected", "none", "throws"} :
       showApiKeyDialog' = (showApiKeyDialog \/ answer # "selected")
  /\ UNCHANGED <<histVars, appState, videoUrl, voiceoverBuffer, loadingTask,
                 errorMessage, lastConfig, lastVideoObject, lastVideoBlob,
                 initialFormValues, form, aistudio, player, util, runs, nruns, pending, edits,
                 nextVideo>>

\* --------------------------------------------------------- the application

\* localStorage outlives the page: the App starts on whatever the key holds,
\* nothing in a fresh browser or the entries an earlier session left there
StoredFast ==
  [productName |-> "N", productDescription |-> "D", prompt |-> "P",
   model |-> VEO_FAST, resolution |-> P1080, aspectRatio |-> PORTRAIT,
   autoExtend |-> TRUE, voiceoverMode |-> "tts", voiceoverScript |-> "S",
   voiceName |-> KORE]
StoredPlain ==
  [productName |-> "N", productDescription |-> "D", prompt |-> "P",
   model |-> VEO_HIGH, resolution |-> P720, aspectRatio |-> PORTRAIT,
   autoExtend |-> FALSE, voiceoverMode |-> "none", voiceoverScript |-> "",
   voiceName |-> ZEPHYR]

StoredRecord ==
  [productName |-> "N", productDescription |-> "D", prompt |-> "P2",
   model |-> VEO_HIGH, resolution |-> P720, aspectRatio |-> LANDSCAPE,
   autoExtend |-> FALSE, voiceoverMode |-> "record", voiceoverScript |-> "",
   voiceName |-> ZEPHYR]

InitialStores ==
  {AbsentStore, ListStore(<<StoredFast, StoredPlain, StoredRecord>>)}

Init ==
  /\ store \in InitialStores
  /\ lastOp = "none"
  /\ saveArg = None
  /\ loaded = <<>>
  /\ appState = IDLE /\ videoUrl = 0 /\ voiceoverBuffer = NoBuffer
  /\ loadingTask = None /\ errorMessage = None /\ lastConfig = None
  /\ lastVideoObject = 0 /\ lastVideoBlob = 0 /\ showApiKeyDialog = FALSE
  /\ initialFormValues = None
  /\ form = MountForm(None)
  /\ aistudio \in BOOLEAN
  /\ player = NoPlayer
  /\ util = NoUtil
  /\ mountCheck = IF aistudio THEN "pending" ELSE "done"
  /\ runs = [r \in 1..MaxRuns |-> NoRun] /\ nruns = 0 /\ pending = <<>>
  /\ edits = 0 /\ nextVideo = 1

Next ==
  \/ HandleInputChange
  \/ HandleCheckboxChange
  \/ HandleFileChange
  \/ HandleRemoveImage
  \/ HandleGenerateScript
  \/ HandleRecordingComplete
  \/ HandlePresetSelect
  \/ HandleHistorySelect
  \/ HandleSubmit
  \/ HandleRetry
  \/ HandleNewVideo
  \/ HandleTryAgainFromError
  \/ HandleExtend
  \/ HandleApiKeyDialogContinue
  \/ SelectKeyReturn
  \/ MountCheckReturn
  \/ \E r \in 1..MaxRuns : KeyCheckReturn(r)
  \/ \E r \in 1..MaxRuns : OperationReturn(r)
  \/ \E r \in 1..MaxRuns : PollAgain(r)
  \/ \E r \in 1..MaxRuns : FetchReturn(r)
  \/ \E r \in 1..MaxRuns : SpeechReturn(r)
  \/ \E r \in 1..MaxRuns : DecodeReturn(r)

Spec == Init /\ [][Next]_vars

\* ------------------------------------------------- claims on the history

\* the entries a getHistory call would return now
StoreItems == GetHistoryResult(store).items

\* C2: starting from an empty store, after any sequence of saveConfiguration
\* and getHistory calls the persisted list, and every list getHistory has
\* returned, has at most 5 entries.
C2_AtMostFive ==
  /\ store.kind = "list" => Len(store.json) <= 5
  /\ Len(StoreItems) <= 5
  /\ Len(loaded) <= 5

\* a save that had to evict: the list held 5 entries, none equal to the new one
C2_Witness ==
  /\ lastOp = "save"
  /\ Len(loaded) = 5
  /\ \A i \in DOMAIN loaded : loaded[i] # Storable(saveArg[1])
  /\ Len(StoreItems) = 5

\* C3: starting from an empty store, after any sequence of saveConfiguration
\* calls no two entries of the persisted list are equal on their serializable
\* fields.
C3_NoDuplicates ==
  \A i, j \in DOMAIN StoreItems :
    i # j => \E f \in StorableFields : StoreItems[i][f] # StoreItems[j][f]

\* a request with an image saved over an entry with the same serializable fields
C3_Witness ==
  /\ lastOp = "save"
  /\ saveArg[1].referenceImages # <<>>
  /\ \E i \in DOMAIN loaded : loaded[i] = Storable(saveArg[1])
  /\ Len(StoreItems) >= 3

\* C4: saveConfiguration(r) on a valid list L leaves r's serializable form
\* followed by the entries of L that differ from it, in their previous order,
\* cut to the first 5. With rank(i) the number of differing entries of L up to
\* i, the differing entry L[i] is at place 1 + rank(i) when that is at most 5.
\* So a new configuration evicts the last of 5, and an equal one moves to the
\* front without changing the length.
C4_SaveResult ==
  lastOp = "save" =>
    LET L == loaded
        r == Storable(saveArg[1])
        R == StoreItems
        differs(i) == L[i] # r
        rank(i) == Cardinality({j \in 1..i : differs(j)})
        kept == {i \in DOMAIN L : differs(i)}
    IN  /\ store.kind = "list"
        /\ Len(R) = Min(5, 1 + Cardinality(kept))
        /\ R[1] = r
        /\ \A i \in kept : 1 + rank(i) <= 5 => R[1 + rank(i)] = L[i]
        /\ (Len(L) = 5 /\ kept = DOMAIN L) =>
             R = <<r, L[1], L[2], L[3], L[4]>>
        /\ kept # DOMAIN L => Len(R) = Len(L)

\* an entry in the middle of a full list saved again: it moves to the front
C4_Witness ==
  /\ lastOp = "save"
  /\ Len(loaded) = 5
  /\ loaded[3] = Storable(saveArg[1])
  /\ StoreItems = <<loaded[3], loaded[1], loaded[2], loaded[4], loaded[5]>>

\* ------------------------------------------------------------- VideoResult

\* (mutant) playAudio starts a node without stopping the one in the ref
PlayAudioNoStop(pl) ==
  IF pl.listen = 0 THEN pl
  ELSE [pl EXCEPT !.nodes = Append(pl.nodes, "started"),
                  !.offsets = Append(pl.offsets, pl.time),
                  !.ref = Len(pl.nodes) + 1]

\* (mutant) playAudio starts the node at the beginning of the buffer
PlayAudioFromStart(pl) ==
  IF pl.listen = 0 THEN pl
  ELSE LET stopped == IF pl.ref # 0
                      THEN [pl.nodes EXCEPT ![pl.ref] = "stopped"]
                      ELSE pl.nodes
       IN  [pl EXCEPT !.nodes = Append(stopped, "started"),
                      !.offsets = Append(pl.offsets, 0),
                      !.ref = Len(pl.nodes) + 1]

\* playAudio, lines 30-49, of the render the listeners were created in
PlayAudio(pl) ==
  IF pl.listen = 0 THEN pl
  ELSE LET stopped == IF pl.ref # 0
                      THEN [pl.nodes EXCEPT ![pl.ref] = "stopped"]
                      ELSE pl.nodes
       IN  [pl EXCEPT !.nodes = Append(stopped, "started"),
                      !.offsets = Append(pl.offsets, pl.time),
                      !.ref = Len(pl.nodes) + 1]

\* (mutant) stopAudio forgets the node without stopping it
StopAudioForgets(pl) == [pl EXCEPT !.ref = 0]

\* stopAudio, lines 52-57
StopAudio(pl) ==
  IF pl.ref # 0
  THEN [pl EXCEPT !.nodes = [pl.nodes EXCEPT ![pl.ref] = "stopped"], !.ref = 0]
  ELSE pl

\* the listeners of the effect receive the events of the element on the page
Listening(pl) == pl.listen # 0 /\ pl.onCurrent

\* the cleanup of the effect, lines 92-98, when an effect had attached
\* listeners
Cleanup(pl) ==
  IF pl.listen # 0
  THEN [StopAudio(pl) EXCEPT !.listen = 0, !.onCurrent = FALSE]
  ELSE pl

\* the effect, lines 70-90: nothing without a voiceover buffer, otherwise the
\* listeners are attached and the element is muted
Effect(pl) ==
  IF pl.buffer = 0 THEN pl
  ELSE [pl EXCEPT !.listen = pl.buffer, !.onCurrent = TRUE, !.muted = TRUE]

\* the events of the video element and the effects leave the App alone
PlayerFrame ==
  UNCHANGED <<histVars, appVars, form, aistudio, util, mountCheck, runs, nruns,
              pending, edits, nextVideo>>

\* the voiceoverBuffer prop: null, or the decoded buffer number buffer
BufferProp(buffer) ==
  IF buffer = 0 THEN NoBuffer ELSE [kind |-> "tts", run |-> buffer]

\* App state changes that put VideoResult on the page, change its props or
\* take it off
RenderFrame ==
  UNCHANGED <<histVars, loadingTask, errorMessage, lastConfig, lastVideoObject,
              lastVideoBlob, showApiKeyDialog, initialFormValues, form,
              aistudio, util, mountCheck, runs, nruns, pending, edits, nextVideo>>

\* App render, line 274: VideoResult is mounted with a video URL and a
\* voiceover buffer or null; its video element is new (autoPlay, loop,
\* controls, no muted attribute) and its refs are empty
ShowResult ==
  /\ ~player.shown
  /\ \E url \in 1..MaxMedia, buffer \in 0..MaxMedia :
       /\ player' = [NoPlayer EXCEPT !.shown = TRUE, !.url = url,
                                     !.buffer = buffer,
                                     !.effectPending = TRUE,
                                     !.nodes = player.nodes,
                                     !.offsets = player.offsets]
       /\ appState' = SUCCESS
       /\ videoUrl' = url
       /\ voiceoverBuffer' = BufferProp(buffer)
  /\ RenderFrame

\* the passive effects of the committed render run: the cleanup of the
\* previous effect, then the effect
RunEffect ==
  /\ player.shown
  /\ player.effectPending
  /\ player' = [Effect(Cleanup(player)) EXCEPT !.effectPending = FALSE,
                                                !.event = "none"]
  /\ PlayerFrame

\* the video starts playing (autoPlay, or the play control): event play
VideoPlay ==
  /\ player.shown
  /\ player.paused
  /\ Len(player.nodes) < MaxNodes
  /\ player' = IF Listening(player)
               THEN [PlayAudio(player) EXCEPT !.paused = FALSE,
                                              !.event = "play"]
               ELSE [player EXCEPT !.paused = FALSE, !.event = "play"]
  /\ PlayerFrame

\* the pause control: event pause
VideoPause ==
  /\ player.shown
  /\ ~player.paused
  /\ player' = IF Listening(player)
               THEN [StopAudio(player) EXCEPT !.paused = TRUE,
                                              !.event = "pause"]
               ELSE [player EXCEPT !.paused = TRUE, !.event = "pause"]
  /\ PlayerFrame

\* the seek bar, or the loop wrapping around: currentTime is the new
\* position when the event seeked is fired
VideoSeeked ==
  /\ player.shown
  /\ Len(player.nodes) < MaxNodes
  /\ \E t \in 0..MaxTime :
       /\ t # player.time
       /\ LET sought == [player EXCEPT !.time = t, !.event = "seeked"]
          IN  player' = IF Listening(player) /\ ~player.paused
                        THEN PlayAudio(sought)
                        ELSE sought
  /\ PlayerFrame

\* playback moves the position on: event timeupdate, which has no listener
VideoAdvance ==
  /\ player.shown
  /\ ~player.paused
  /\ player.time < MaxTime
  /\ player' = [player EXCEPT !.time = @ + 1, !.event = "timeupdate"]
  /\ PlayerFrame

\* the video reaches its end with looping off: event ended
VideoEnded ==
  /\ player.shown
  /\ ~player.paused
  /\ player.time = MaxTime
  /\ player' = IF Listening(player)
               THEN [StopAudio(player) EXCEPT !.paused = TRUE,
                                              !.event = "ended"]
               ELSE [player EXCEPT !.paused = TRUE, !.event = "ended"]
  /\ PlayerFrame

\* the mute button of the native controls
ToggleMute ==
  /\ player.shown
  /\ player' = [player EXCEPT !.muted = ~@]
  /\ PlayerFrame

\* App renders VideoResult again with another videoUrl or voiceoverBuffer (a
\* second run ending while the result is shown). key={videoUrl}: another URL
\* replaces the video element, and the listeners stay on the old one until
\* the effects run.
Rerender ==
  /\ player.shown
  /\ ~player.effectPending
  /\ \E url \in 1..MaxMedia, buffer \in 0..MaxMedia :
       /\ <<url, buffer>> # <<player.url, player.buffer>>
       /\ player' =
            IF url # player.url
            THEN [player EXCEPT !.url = url, !.buffer = buffer,
                                !.effectPending = TRUE, !.onCurrent = FALSE,
                                !.paused = TRUE, !.muted = FALSE,
                                !.time = 0, !.event = "none"]
            ELSE [player EXCEPT !.buffer = buffer, !.effectPending = TRUE,
                                !.event = "none"]
       /\ videoUrl' = url
       /\ voiceoverBuffer' = BufferProp(buffer)
  /\ UNCHANGED appState
  /\ RenderFrame

\* VideoResult is unmounted (Retry, Create New Ad, Extend): the cleanup of the
\* last effect runs
HideResult ==
  /\ player.shown
  /\ player' = [NoPlayer EXCEPT !.nodes = Cleanup(player).nodes,
                                 !.offsets = player.offsets]
  /\ appState' = IDLE
  /\ videoUrl' = 0
  /\ voiceoverBuffer' = NoBuffer
  /\ RenderFrame

PlayerInit ==
  /\ store = AbsentStore
  /\ lastOp = "none"
  /\ saveArg = None
  /\ loaded = <<>>
  /\ appState = IDLE /\ videoUrl = 0 /\ voiceoverBuffer = NoBuffer
  /\ loadingTask = None /\ errorMessage = None /\ lastConfig = None
  /\ lastVideoObject = 0 /\ lastVideoBlob = 0 /\ showApiKeyDialog = FALSE
  /\ initialFormValues = None
  /\ form = DefaultForm /\ aistudio = FALSE /\ mountCheck = "done"
  /\ player = NoPlayer
  /\ util = NoUtil
  /\ runs = [r \in 1..MaxRuns |-> NoRun] /\ nruns = 0 /\ pending = <<>>
  /\ edits = 0 /\ nextVideo = 1

PlayerNext ==
  \/ ShowResult
  \/ RunEffect
  \/ VideoPlay
  \/ VideoPause
  \/ VideoSeeked
  \/ VideoAdvance
  \/ VideoEnded
  \/ ToggleMute
  \/ Rerender
  \/ HideResult

SpecPlayer == PlayerInit /\ [][PlayerNext]_vars

\* ------------------------------------------------ claims on the pipeline

Runs == 1..MaxRuns

\* run r's stage-s generateVideo call returns its video in this step
VideoReturned(r, s) ==
  /\ runs[r].pc = "fetch"
  /\ runs[r].stage = s
  /\ Len(runs'[r].got) = Len(runs[r].got) + 1

\* run r ends with success in this step
SucceedsNow(r) == runs[r].pc # "done" /\ runs'[r].outcome = "success"

\* C1 (as claimed): after a successful run of handleGenerate the history store
\* holds the submitted request's serializable form as its first entry.
C1_SuccessIsSaved ==
  (nruns = 1 /\ runs[1].outcome = "success") =>
    /\ GetHistoryResult(store).isList
    /\ StoreItems # <<>>
    /\ StoreItems[1] = Storable(runs[1].params)

\* C5: a run with autoExtend whose stages all succeed has called generateVideos
\* exactly twice, the second payload's video is the video the first call
\* returned, and the video stored for playback (URL, blob, handle) when the
\* extension returns is the second call's video, not the first's.
C5_Step ==
  \A r \in Runs :
    /\ (SucceedsNow(r) /\ runs[r].params.autoExtend) =>
         /\ Len(runs'[r].sent) = 2
         /\ Len(runs'[r].got) = 2
         /\ runs'[r].sent[2].video = runs'[r].got[1]
         /\ runs'[r].sent[1].video = runs'[r].params.inputVideoObject
    /\ (VideoReturned(r, 2) /\ runs[r].params.autoExtend) =>
         /\ videoUrl' = runs'[r].got[2]
         /\ lastVideoBlob' = runs'[r].got[2]
         /\ lastVideoObject' = runs'[r].got[2]
         /\ runs'[r].got[2] # runs'[r].got[1]
    /\ (VideoReturned(r, 1) /\ runs[r].params.autoExtend) =>
         UNCHANGED <<videoUrl, lastVideoBlob, lastVideoObject>>

C5_ScenarioB == [][C5_Step]_vars

C5_Witness ==
  \E r \in Runs :
    /\ runs[r].outcome = "success"
    /\ runs[r].params.autoExtend
    /\ appState = SUCCESS
    /\ videoUrl = runs[r].got[2]
    /\ lastVideoObject = runs[r].got[2]

\* C6: a run with autoExtend = false and voiceoverMode = none sends one
\* generation payload at most and never calls speech synthesis; when its
\* generation returns a video the run ends at once in SUCCESS with that video's
\* URL stored and a null voiceover buffer.
C6_Step ==
  \A r \in Runs :
    (~runs'[r].params.autoExtend /\ runs'[r].params.voiceoverMode = "none") =>
      /\ Len(runs'[r].sent) <= 1
      /\ runs'[r].speech = 0
      /\ VideoReturned(r, 1) =>
           /\ runs'[r].pc = "done"
           /\ runs'[r].outcome = "success"
           /\ Len(runs'[r].sent) = 1
           /\ appState' = SUCCESS
           /\ videoUrl' # 0
           /\ videoUrl' = runs'[r].got[1]
           /\ voiceoverBuffer' = NoBuffer

C6_ScenarioA == [][C6_Step]_vars

C6_Witness ==
  \E r \in Runs :
    /\ runs[r].outcome = "success"
    /\ ~runs[r].params.autoExtend
    /\ runs[r].params.voiceoverMode = "none"
    /\ Len(runs[r].sent) = 1
    /\ appState = SUCCESS
    /\ videoUrl = runs[r].got[1]
    /\ voiceoverBuffer = NoBuffer

\* the message shown for an operation that completed with zero videos
EmptyResultShown == <<"Video generation failed: ", "No videos were generated.">>

\* run r's operation comes back completed with zero videos in this step
EmptyNow(r) ==
  /\ runs[r].pc \in {"submit", "query"}
  /\ runs'[r].pc = "done"
  /\ runs'[r].resp = "empty"

\* C7: when the operation completes with zero videos the run ends in ERROR
\* with the empty-result message, no fetch is issued, and the history store
\* is not written: not in that step, and saveConfiguration has not been
\* called before it.
C7_Step ==
  \A r \in Runs :
    EmptyNow(r) =>
      /\ runs'[r].outcome = "error"
      /\ appState' = ERROR
      /\ errorMessage' = Some(EmptyResultShown)
      /\ store' = store
      /\ saveArg' = None
      /\ lastOp' # "save"

C7_ScenarioC == [][C7_Step]_vars

C7_Witness ==
  \E r \in Runs :
    /\ runs[r].resp = "empty"
    /\ runs[r].outcome = "error"
    /\ appState = ERROR
    /\ errorMessage = Some(EmptyResultShown)
    /\ store \in InitialStores

\* C8 (as claimed): every payload sent with at least one reference image has
\* the high-quality model, 720p and the landscape aspect ratio.
C8_ImageConstraint ==
  \A r \in Runs : \A i \in DOMAIN runs[r].sent :
    Len(runs[r].sent[i].referenceImages) >= 1 =>
      /\ runs[r].sent[i].model = VEO_HIGH
      /\ runs[r].sent[i].resolution = P720
      /\ runs[r].sent[i].aspectRatio = LANDSCAPE

\* C9: the payload the auto-extend stage sends has resolution 720p, no aspect
\* ratio and the video of the first stage, whatever the original request's
\* resolution and aspect ratio.
C9_ExtensionConstraint ==
  \A r \in Runs :
    Len(runs[r].sent) >= 2 =>
      /\ runs[r].sent[2].resolution = P720
      /\ runs[r].sent[2].aspectRatio = Absent
      /\ runs[r].sent[2].video # 0
      /\ runs[r].sent[2].video = runs[r].got[1]

\* an extension of a request made at 1080p in portrait
C9_Witness ==
  \E r \in Runs :
    /\ Len(runs[r].sent) = 2
    /\ runs[r].params.resolution = P1080
    /\ runs[r].params.aspectRatio = PORTRAIT
    /\ runs[r].sent[1].aspectRatio = PORTRAIT
    /\ runs[r].sent[1].resolution = P1080

\* C10 (as claimed): every payload sent with an input video has no aspect
\* ratio and resolution 720p.
C10_InputVideoConstraint ==
  \A r \in Runs : \A i \in DOMAIN runs[r].sent :
    runs[r].sent[i].video # 0 =>
      /\ runs[r].sent[i].aspectRatio = Absent
      /\ runs[r].sent[i].resolution = P720

\* the flags in seen before the last one
NotDoneBefore(seen, n) == \A i \in 1..n : seen[i] = FALSE

\* C11: generateVideo re-queries the operation once per "not done" answer and
\* never after an answer with the done flag: while it sleeps or waits for an
\* answer every flag seen was unset; when the done flag arrives with the k-th
\* re-query (the answers before it, generateVideos' included, were k times
\* "not done") exactly k re-queries were made; a re-query is only sent from
\* the suspension that follows a "not done" answer; and once the flag was
\* seen the operation is neither queried nor waited for again.
C11_Step ==
  \A r \in Runs :
    LET run == runs'[r] IN
    /\ run.pc = "submit" => run.polls = 0 /\ run.seen = <<>>
    /\ run.pc = "sleep" =>
         Len(run.seen) = run.polls + 1 /\ NotDoneBefore(run.seen, Len(run.seen))
    /\ run.pc = "query" =>
         /\ run.polls >= 1
         /\ Len(run.seen) = run.polls
         /\ NotDoneBefore(run.seen, Len(run.seen))
    /\ run.pc = "fetch" =>
         /\ Len(run.seen) = run.polls + 1
         /\ run.seen[Len(run.seen)] = TRUE
         /\ NotDoneBefore(run.seen, run.polls)
    /\ run.polls > runs[r].polls =>
         /\ run.polls = runs[r].polls + 1
         /\ runs[r].pc = "sleep"
         /\ run.pc = "query"
    /\ (run.pc = "sleep" /\ runs[r].pc # "sleep") =>
         /\ runs[r].pc \in {"submit", "query"}
         /\ run.polls = runs[r].polls
    /\ runs[r].pc = "fetch" => run.pc \notin {"query", "sleep"}

C11_Polling == [][C11_Step]_vars

\* not done, not done, done: three queries, two of them re-queries
C11_Witness ==
  \E r \in Runs :
    /\ runs[r].pc = "fetch"
    /\ runs[r].seen = <<FALSE, FALSE, TRUE>>
    /\ runs[r].polls = 2

\* run r is between setAppState(LOADING) and its completion
Running(r) ==
  runs[r].pc \in {"submit", "sleep", "query", "fetch", "speech", "decode"}

\* C12 (as claimed): no two invocations of handleGenerate are between their
\* start and their completion at the same time.
C12_OneRunAtATime ==
  \A r, q \in Runs : (Running(r) /\ Running(q)) => r = q

\* run r's handleGenerate ends in its catch in this step
FailsNow(r) == runs[r].pc # "done" /\ runs'[r].outcome = "error"

\* C13: a failing stage ends the run in ERROR with a message and nothing
\* follows it. The step in which a run fails sets appState to ERROR and an
\* error message, starts no run and leaves the other runs alone; a completed
\* operation without a usable video fails the run; a run that failed inside
\* the initial generation has sent one payload and made no speech call, one
\* that failed inside the extension has sent two and made no speech call; and
\* a run that has ended never changes again (no later stage, no repeated
\* call).
C13_Step ==
  \A r \in Runs :
    /\ FailsNow(r) =>
         /\ appState' = ERROR
         /\ errorMessage' # None
         /\ errorMessage'[1] # <<>>
         /\ runs'[r].pc = "done"
         /\ nruns' = nruns
         /\ pending' = pending
         /\ \A q \in Runs \ {r} : runs'[q] = runs[q]
    /\ (FailsNow(r) /\ runs[r].pc \in {"submit", "query", "fetch"}) =>
         /\ Len(runs'[r].sent) = runs[r].stage
         /\ Len(runs'[r].got) = runs[r].stage - 1
         /\ runs'[r].speech = 0
    /\ runs'[r].resp \in {"empty", "nouri", "noresponse"} =>
         runs'[r].outcome = "error"
    /\ runs[r].pc = "done" => runs'[r] = runs[r]

C13_FailureStops == [][C13_Step]_vars

\* an extension that failed in a request that asked for a synthesized voiceover
C13_Witness ==
  \E r \in Runs :
    /\ runs[r].outcome = "error"
    /\ runs[r].stage = 2
    /\ Len(runs[r].sent) = 2
    /\ runs[r].params.voiceoverMode = "tts"
    /\ runs[r].speech = 0
    /\ appState = ERROR
    /\ errorMessage # None

\* C14 (as claimed): a request in voiceover mode record without a recorded
\* audio blob does not end in SUCCESS.
C14_RecordWithoutAudioFails ==
  \A r \in Runs :
    (runs[r].params.voiceoverMode = "record"
       /\ runs[r].params.recordedAudioBlob = 0) =>
      runs[r].outcome # "success"

\* the request asks for a synthesized voiceover and carries script and voice
WantsSpeech(p) ==
  p.voiceoverMode = "tts" /\ p.voiceoverScript # "" /\ p.voiceName # ""

\* the request is in record mode and carries a recording
HasRecording(p) == p.voiceoverMode = "record" /\ p.recordedAudioBlob # 0

\* the videos a request makes handleGenerate wait for
VideoStages(p) == IF p.autoExtend THEN 2 ELSE 1

\* C15: the voiceover stage runs exactly when the request is tts with script
\* and voice (generateSpeech is called, once) or record with a recording (the
\* recording is decoded), and it starts in the step in which the last video
\* stage returns its video, never earlier; otherwise that step ends the run
\* with a null voiceover buffer and no speech call is ever made. A run that
\* succeeds leaves the buffer of its own branch, null for mode none.
C15_Step ==
  \A r \in Runs :
    LET run == runs'[r]
        p == run.params
    IN  /\ run.speech <= 1
        /\ run.speech = 1 => WantsSpeech(p)
        /\ run.pc = "speech" => WantsSpeech(p) /\ run.speech = 1
        /\ run.pc = "decode" => HasRecording(p) /\ run.speech = 0
        /\ (run.pc \in {"speech", "decode"} \/ run.speech = 1) =>
             /\ Len(run.got) = VideoStages(p)
             /\ Len(run.sent) = VideoStages(p)
        /\ VideoReturned(r, VideoStages(p)) =>
             /\ WantsSpeech(p) => run.pc = "speech"
             /\ HasRecording(p) => run.pc = "decode"
             /\ (~WantsSpeech(p) /\ ~HasRecording(p)) =>
                  /\ run.pc = "done"
                  /\ run.outcome = "success"
                  /\ run.speech = 0
                  /\ voiceoverBuffer' = NoBuffer
        /\ (runs[r].pc \in {"speech", "decode"}) => run.pc \in {runs[r].pc, "done"}
        /\ SucceedsNow(r) =>
             voiceoverBuffer' =
               IF WantsSpeech(p) THEN [kind |-> "tts", run |-> r]
               ELSE IF HasRecording(p) THEN [kind |-> "rec", run |-> r]
               ELSE NoBuffer

C15_VoiceoverStage == [][C15_Step]_vars

\* a synthesized voiceover made after the extension of the video
C15_Witness ==
  \E r \in Runs :
    /\ runs[r].outcome = "success"
    /\ WantsSpeech(runs[r].params)
    /\ runs[r].params.autoExtend
    /\ runs[r].speech = 1
    /\ Len(runs[r].got) = 2
    /\ voiceoverBuffer = [kind |-> "tts", run |-> r]

\* run r is the run that set LOADING last
MostRecentlyStarted(r) == runs[r].began > 0 /\ runs[r].began = Begun

\* a click on Retry calls handleGenerate in this step: VideoResult is on the
\* page, an invocation is added, and the step is neither the Continue of the
\* API key dialog nor the return of openSelectKey
RetryClicked ==
  /\ ResultShown
  /\ nruns' = nruns + 1
  /\ pending' = pending
  /\ showApiKeyDialog' = showApiKeyDialog

\* C16: lastConfig, when set, is the request of the run that started last, as
\* it was submitted: after an extension it still yields that run's first
\* payload (the original prompt and resolution, no video added by the
\* extension), not the extension's. A click on Retry calls handleGenerate with
\* exactly lastConfig, and the handleRetry captured by the API key dialog's
\* Continue holds the lastConfig of the render it was clicked in.
C16_Step ==
  /\ lastConfig' # None =>
       \E r \in Runs :
         /\ runs'[r].began > 0
         /\ \A q \in Runs : runs'[q].began <= runs'[r].began
         /\ lastConfig'[1] = runs'[r].params
         /\ BuildPayload(lastConfig'[1]) = runs'[r].sent[1]
         /\ Len(runs'[r].sent) = 2 =>
              /\ BuildPayload(lastConfig'[1]) # runs'[r].sent[2]
              /\ lastConfig'[1].inputVideoObject # runs'[r].sent[2].video
              /\ lastConfig'[1].prompt # runs'[r].sent[2].prompt
  /\ RetryClicked =>
       /\ lastConfig # None
       /\ runs'[nruns + 1].params = lastConfig[1]
       /\ \E r \in Runs : MostRecentlyStarted(r) /\ runs'[nruns + 1].params = runs[r].params
       /\ ~aistudio => runs'[nruns + 1].sent = <<BuildPayload(lastConfig[1])>>
  /\ Len(pending') > Len(pending) =>
       /\ lastConfig # None
       /\ pending'[Len(pending')] = lastConfig[1]

LoadStep == lastOp' \in {"load", "load caught", "load threw"}

\* C17: getHistory returns normally on every persisted value. On a text that
\* does not parse it returns [] and removes the key, so that the next call
\* finds no key and returns [] without an error; on every other value (no
\* key, a list, JSON that is no list) it leaves the store as it is, and on a
\* list it returns the list's entries.
C17_Step ==
  LoadStep =>
    /\ lastOp' # "load threw"
    /\ store.kind = "corrupt" =>
         /\ lastOp' = "load caught"
         /\ loaded' = <<>>
         /\ store' = AbsentStore
         /\ GetHistoryResult(store').items = <<>>
         /\ ~GetHistoryCaught(store')
         /\ GetHistoryStore(store') = store'
    /\ store.kind # "corrupt" =>
         /\ lastOp' = "load"
         /\ store' = store
    /\ store.kind = "list" => loaded' = ParseList(store.json)
    /\ store.kind = "absent" => loaded' = <<>>

SaveStep == lastOp' \in {"save", "save caught", "save threw"}

\* C18: saveConfiguration returns normally whatever fails inside it. When the
\* stored value is no list (history.filter throws) it writes nothing; when
\* setItem throws the store is what getHistory left; when the stored text did
\* not parse it is treated as empty and replaced. In each case the catch is
\* the only trace: no error leaves the call and the App's state (appState,
\* errorMessage) is untouched.
C18_Step ==
  SaveStep =>
    /\ lastOp' # "save threw"
    /\ store.kind = "nonlist" => lastOp' = "save caught" /\ store' = store
    /\ (lastOp' = "save caught" /\ store.kind # "nonlist") =>
         store' = GetHistoryStore(store)
    /\ lastOp' = "save" =>
         /\ store'.kind = "list"
         /\ GetHistoryResult(store').items[1] = Storable(saveArg'[1])
    /\ (lastOp' = "save" /\ store.kind = "corrupt") =>
         GetHistoryResult(store').items = <<Storable(saveArg'[1])>>
    /\ appState' = appState
    /\ errorMessage' = errorMessage

C19_AlwaysMuted ==
  (ResultShown /\ player.shown /\ ~player.effectPending) => player.muted

\* the audio source nodes that were started and not stopped
Sounding(pl) == {i \in DOMAIN pl.nodes : pl.nodes[i] = "started"}

\* C20: after any sequence of play, pause, seeked and ended events, renders
\* and unmounts, at most one audio source node is started and not stopped,
\* and it is the node audioSourceRef holds; a step that starts a node has
\* stopped every node started before it; a paused video and an unmounted
\* component have no node left sounding through their listeners.
C20_Step ==
  /\ Cardinality(Sounding(player')) <= 1
  /\ \A i \in Sounding(player') : player'.ref = i
  /\ Len(player'.nodes) > Len(player.nodes) =>
       /\ Len(player'.nodes) = Len(player.nodes) + 1
       /\ player'.nodes[Len(player'.nodes)] = "started"
       /\ \A i \in DOMAIN player.nodes : player'.nodes[i] = "stopped"
       /\ ~player'.paused
  /\ \A i \in DOMAIN player.nodes :
       player.nodes[i] = "stopped" => player'.nodes[i] = "stopped"
  /\ ~player'.shown => Sounding(player') = {}

C20_OneNode == [][C20_Step]_vars

\* a seek while playing: the first node was stopped, the second one sounds
C20_Witness ==
  /\ player.shown
  /\ ~player.paused
  /\ player.nodes = <<"stopped", "started">>
  /\ player.ref = 2
  /\ player.muted

\* the video element fired pause or ended in this step
PausedOrEnded ==
  /\ player.shown /\ ~player.paused
  /\ player'.shown /\ player'.paused
  /\ player'.event \in {"pause", "ended"}

\* the cleanup of the transport effect ran in this step: the effect is run
\* again for another videoUrl or voiceoverBuffer, or the component is
\* unmounted
TornDown ==
  \/ player.shown /\ player.effectPending /\ ~player'.effectPending
  \/ player.shown /\ ~player'.shown

\* C21: after a pause or ended event received by the transport listeners,
\* and after the teardown of the effect (another result, or the component
\* taken off the page), no audio source node is started and not stopped and
\* audioSourceRef is null.
C21_Step ==
  ((PausedOrEnded /\ Listening(player)) \/ TornDown) =>
    /\ Sounding(player') = {}
    /\ player'.ref = 0

Played ==
  /\ player.shown /\ player.paused
  /\ player'.shown /\ ~player'.paused
  /\ player'.event = "play"

\* the video element fired seeked in this step
Seeked ==
  /\ player.shown /\ player'.shown
  /\ player'.url = player.url
  /\ player'.event = "seeked"
  /\ player'.time # player.time

\* this step started one node, at the position the video has after the step,
\* and the ref holds it
StartedNode ==
  /\ Len(player'.nodes) = Len(player.nodes) + 1
  /\ player'.nodes[Len(player'.nodes)] = "started"
  /\ Len(player'.offsets) = Len(player'.nodes)
  /\ player'.offsets[Len(player'.nodes)] = player'.time
  /\ player'.ref = Len(player'.nodes)

\* C27: on a play event, and on a seeked event while the video is not paused,
\* received by the transport listeners, a new audio source node is started at
\* the video's current position at the time of the event (for seeked: the
\* position sought); on a seeked event while the video is paused no node is
\* started.
C27_Step ==
  /\ (Played /\ Listening(player)) =>
       StartedNode /\ player'.time = player.time
  /\ (Seeked /\ Listening(player) /\ ~player.paused) => StartedNode
  /\ (Seeked /\ player.paused) =>
       /\ player'.nodes = player.nodes
       /\ player'.offsets = player.offsets
       /\ player'.ref = player.ref

Threw == [threw |-> TRUE]
Returned(v) == [threw |-> FALSE, value |-> v]

\* byte values the calls are tried on
ByteSamples == {0, 1, 127, 128, 255}
PcmByteSamples == {0, 1, 255}
SampleRates == {24000, 48000}

\* the sequences over S of length n, and of length at most n
SeqsOfLen(S, n) == [1..n -> S]
SeqsUpTo(S, n) == UNION {SeqsOfLen(S, k) : k \in 0..n}

\* Base64 text is a sequence of digits 0..63 (A-Z, a-z, 0-9, +, /) and Pad
\* for "="; a binary string is the sequence of its char codes.
Pad == 64

\* window.btoa on a binary string (every char code below 256)
RECURSIVE btoa(_)
btoa(bin) ==
  IF Len(bin) = 0 THEN <<>>
  ELSE IF Len(bin) = 1
  THEN <<bin[1] \div 4, (bin[1] % 4) * 16, Pad, Pad>>
  ELSE IF Len(bin) = 2
  THEN <<bin[1] \div 4, (bin[1] % 4) * 16 + bin[2] \div 16,
         (bin[2] % 16) * 4, Pad>>
  ELSE <<bin[1] \div 4, (bin[1] % 4) * 16 + bin[2] \div 16,
         (bin[2] % 16) * 4 + bin[3] \div 64, bin[3] % 64>>
       \o btoa(SubSeq(bin, 4, Len(bin)))

\* the digits of a Base64 text whose length is a multiple of 4, without the
\* one or two "=" it ends with
StripPad(text) ==
  IF Len(text) > 0 /\ Len(text) % 4 = 0 /\ text[Len(text)] = Pad
  THEN IF text[Len(text) - 1] = Pad
       THEN SubSeq(text, 1, Len(text) - 2)
       ELSE SubSeq(text, 1, Len(text) - 1)
  ELSE text

\* the bytes that a sequence of digits stands for; the bits left over at the
\* end are discarded
RECURSIVE FromDigits(_)
FromDigits(d) ==
  IF Len(d) < 2 THEN <<>>
  ELSE IF Len(d) = 2 THEN <<d[1] * 4 + d[2] \div 16>>
  ELSE IF Len(d) = 3
  THEN <<d[1] * 4 + d[2] \div 16, (d[2] % 16) * 16 + d[3] \div 4>>
  ELSE <<d[1] * 4 + d[2] \div 16, (d[2] % 16) * 16 + d[3] \div 4,
         (d[3] % 4) * 64 + d[4]>>
       \o FromDigits(SubSeq(d, 5, Len(d)))

\* window.atob: InvalidCharacterError on a "=" that is not padding and on a
\* length of 1 modulo 4
atob(text) ==
  LET d == StripPad(text)
  IN  IF (\E i \in DOMAIN d : d[i] = Pad) \/ Len(d) % 4 = 1
      THEN Threw
      ELSE Returned(FromDigits(d))

\* (mutant) encode loops to len - 1
encodeDropsLast(bytes) ==
  btoa([i \in 1..(IF Len(bytes) = 0 THEN 0 ELSE Len(bytes) - 1) |-> bytes[i]])

\* encode, lines 26-33: String.fromCharCode of each byte, then btoa
encode(bytes) == btoa([i \in 1..Len(bytes) |-> bytes[i]])

\* decode, lines 11-19: atob, then charCodeAt of each char into a Uint8Array
decode(base64) ==
  LET binaryString == atob(base64)
  IN  IF binaryString.threw THEN Threw
      ELSE Returned([i \in 1..Len(binaryString.value) |->
                       binaryString.value[i] % 256])

\* new Int16Array(data.buffer): RangeError when the byte length is odd,
\* otherwise the signed 16-bit values of the byte pairs, low byte first
Int16Array(data) ==
  IF Len(data) % 2 = 1 THEN Threw
  ELSE Returned([i \in 1..(Len(data) \div 2) |->
         LET u == data[2 * i - 1] + 256 * data[2 * i]
         IN  IF u >= 32768 THEN u - 65536 ELSE u])

\* (mutant) the samples are read channel after channel
SampleIndexPlanar(i, channel, numChannels, samples) ==
  channel * (samples \div numChannels) + i

\* line 58: the index into dataInt16 of frame i of a channel
SampleIndex(i, channel, numChannels, samples) == i * numChannels + channel

\* decodeAudioData, lines 44-61. frameCount is the quotient
\* dataInt16.length / numChannels, which need not be whole: createBuffer
\* truncates it and throws NotSupportedError below one frame; the loop runs
\* while i < frameCount, and a write past the end of a channel's (zero-filled)
\* Float32Array is ignored. A channel value v stands for v / 32768.
decodeAudioData(data, sampleRate, numChannels) ==
  LET dataInt16 == Int16Array(data)
  IN  IF dataInt16.threw THEN Threw
      ELSE
        LET samples == Len(dataInt16.value)
            length == samples \div numChannels
            Looped(i) == i * numChannels < samples
            Value(i, channel) ==
              LET at == SampleIndex(i, channel, numChannels, samples)
              IN  IF Looped(i) /\ at < samples
                  THEN dataInt16.value[at + 1]
                  ELSE 0
        IN  IF length < 1 THEN Threw
            ELSE Returned(
                   [numberOfChannels |-> numChannels,
                    length |-> length,
                    sampleRate |-> sampleRate,
                    channelData |->
                      [channel \in 0..(numChannels - 1) |->
                        [i \in 0..(length - 1) |-> Value(i, channel)]]])

\* encode is called on some bytes, then decode on the text it returned
CodecInit ==
  /\ store = AbsentStore
  /\ lastOp = "none"
  /\ saveArg = None
  /\ loaded = <<>>
  /\ appState = IDLE /\ videoUrl = 0 /\ voiceoverBuffer = NoBuffer
  /\ loadingTask = None /\ errorMessage = None /\ lastConfig = None
  /\ lastVideoObject = 0 /\ lastVideoBlob = 0 /\ showApiKeyDialog = FALSE
  /\ initialFormValues = None
  /\ form = DefaultForm /\ aistudio = FALSE /\ mountCheck = "done"
  /\ player = NoPlayer
  /\ runs = [r \in 1..MaxRuns |-> NoRun] /\ nruns = 0 /\ pending = <<>>
  /\ edits = 0 /\ nextVideo = 1
  /\ \E bytes \in SeqsUpTo(ByteSamples, MaxBytes) :
       util = [fn |-> "encode", bytes |-> bytes, text |-> <<>>,
               result |-> Threw]

UtilFrame ==
  UNCHANGED <<histVars, appVars, form, aistudio, player, mountCheck, runs,
              nruns, pending, edits, nextVideo>>

CallEncode ==
  /\ util.fn = "encode"
  /\ util' = [util EXCEPT !.fn = "decode", !.text = encode(util.bytes)]
  /\ UtilFrame

CallDecode ==
  /\ util.fn = "decode"
  /\ util' = [util EXCEPT !.fn = "done", !.result = decode(util.text)]
  /\ UtilFrame

CodecNext == CallEncode \/ CallDecode

SpecCodec == CodecInit /\ [][CodecNext]_vars

\* decodeAudioData is called on some raw audio bytes
PcmInit ==
  /\ store = AbsentStore
  /\ lastOp = "none"
  /\ saveArg = None
  /\ loaded = <<>>
  /\ appState = IDLE /\ videoUrl = 0 /\ voiceoverBuffer = NoBuffer
  /\ loadingTask = None /\ errorMessage = None /\ lastConfig = None
  /\ lastVideoObject = 0 /\ lastVideoBlob = 0 /\ showApiKeyDialog = FALSE
  /\ initialFormValues = None
  /\ form = DefaultForm /\ aistudio = FALSE /\ mountCheck = "done"
  /\ player = NoPlayer
  /\ runs = [r \in 1..MaxRuns |-> NoRun] /\ nruns = 0 /\ pending = <<>>
  /\ edits = 0 /\ nextVideo = 1
  /\ \E data \in SeqsUpTo(PcmByteSamples, MaxPcmBytes),
        sampleRate \in SampleRates, numChannels \in 1..MaxChannels :
       util = [fn |-> "decodeAudioData", data |-> data,
               sampleRate |-> sampleRate, numChannels |-> numChannels,
               result |-> Threw]

CallDecodeAudioData ==
  /\ util.fn = "decodeAudioData"
  /\ util' = [util EXCEPT
       !.fn = "done",
       !.result = decodeAudioData(util.data, util.sampleRate,
                                  util.numChannels)]
  /\ UtilFrame

PcmNext == CallDecodeAudioData

SpecPcm == PcmInit /\ [][PcmNext]_vars

\* ------------------------------------------------------- claims on utils.ts

\* C22: for every byte sequence x, the empty one included, decode(encode(x))
\* returns x.
C22_RoundTrip ==
  util.fn = "done" => util.result = Returned(util.bytes)

\* one byte: two digits and two "=" come back as the byte
C22_Witness ==
  /\ util.fn = "done"
  /\ util.bytes = <<255>>
  /\ util.text = <<63, 48, Pad, Pad>>
  /\ util.result = Returned(<<255>>)

\* the 16-bit samples of the call's data, when their count is whole
Samples == Int16Array(util.data).value

\* the buffer the claim describes for S samples and c channels: c channels of
\* S div c frames at the given rate, frame i of channel k being sample
\* i * c + k
ClaimedBuffer ==
  LET c == util.numChannels
      S == Len(Samples)
  IN  /\ ~util.result.threw
      /\ util.result.value.numberOfChannels = c
      /\ util.result.value.sampleRate = util.sampleRate
      /\ util.result.value.length = S \div c
      /\ DOMAIN util.result.value.channelData = 0..(c - 1)
      /\ \A k \in 0..(c - 1) :
           /\ DOMAIN util.result.value.channelData[k] = 0..((S \div c) - 1)
           /\ \A i \in 0..((S \div c) - 1) :
                util.result.value.channelData[k][i] = Samples[i * c + k + 1]

\* C23 (as claimed): decodeAudioData on any S 16-bit samples and c channels
\* returns the buffer described above.
C23_PcmDecodeAnyInput ==
  (util.fn = "done" /\ Len(util.data) % 2 = 0) => ClaimedBuffer

\* C23 (amended): decodeAudioData on S 16-bit samples and c channels with at
\* least one whole frame (S div c >= 1) returns a buffer of c channels with
\* S div c frames each at the given sample rate, frame i of channel k being
\* sample i * c + k; a trailing partial frame is dropped. With fewer than c
\* samples (no samples included) the call is rejected.
C23_PcmDecode ==
  (util.fn = "done" /\ Len(util.data) % 2 = 0) =>
    IF Len(Samples) \div util.numChannels >= 1
    THEN ClaimedBuffer
    ELSE util.result = Threw

\* stereo, three samples -1, 1, 256: one frame, -1 in channel 0 and 1 in
\* channel 1, the third sample dropped
C23_Witness ==
  /\ util.fn = "done"
  /\ util.numChannels = 2
  /\ util.sampleRate = 24000
  /\ util.data = <<255, 255, 1, 0, 0, 1>>
  /\ util.result =
       Returned([numberOfChannels |-> 2, length |-> 1, sampleRate |-> 24000,
                 channelData |-> [k \in 0..1 |->
                   [i \in 0..0 |-> IF k = 0 THEN -1 ELSE 1]]])

\* ------------------------------------- claims on the pipeline, continued

\* generateVideo of run r returned a result bundle in this step
ReturnsBundle(r) == Len(runs'[r].got) = Len(runs[r].got) + 1

\* run r issued its asset fetch in this step
IssuesFetch(r) == runs[r].pc # "fetch" /\ runs'[r].pc = "fetch"

\* C24: generateVideo returns a result bundle only when the operation
\* completed (done) with a first video that has a URI and the fetch of it was
\* answered with a success status; on an empty result set or a first video
\* without URI it throws without issuing a fetch; on a fetch answered with
\* another status it throws an error whose message carries the status, and no
\* object URL (no result) is created.
C24_Step ==
  \A r \in Runs :
    /\ Len(runs'[r].got) >= Len(runs[r].got)
    /\ Len(runs'[r].got) # Len(runs[r].got) =>
         /\ ReturnsBundle(r)
         /\ runs[r].pc = "fetch"
         /\ runs[r].resp = "ok"
         /\ runs[r].seen # <<>> /\ runs[r].seen[Len(runs[r].seen)]
         /\ runs'[r].status \in 200..299
    /\ IssuesFetch(r) => runs'[r].resp = "ok"
    /\ (runs[r].pc \in {"submit", "query"} /\ runs'[r].pc # runs[r].pc
          /\ runs'[r].resp \in {"empty", "nouri"}) =>
         /\ ~IssuesFetch(r)
         /\ runs'[r].pc = "done" /\ runs'[r].outcome = "error"
         /\ runs'[r].got = runs[r].got
         /\ errorMessage' = Some(<<"Video generation failed: ">> \o
              (IF runs'[r].resp = "empty" THEN MsgNoVideosWereGenerated
                                          ELSE MsgMissingUri))
    /\ (runs[r].pc = "fetch" /\ runs'[r].pc # "fetch"
          /\ runs'[r].status \notin 200..299) =>
         /\ runs'[r].pc = "done" /\ runs'[r].outcome = "error"
         /\ runs'[r].got = runs[r].got
         /\ nextVideo' = nextVideo
         /\ videoUrl' = videoUrl /\ lastVideoBlob' = lastVideoBlob
         /\ errorMessage' = Some(<<"Video generation failed: ",
                                   "Failed to fetch video: ",
                                   ToString(runs'[r].status)>>)

C24_ResultBundle == [][C24_Step]_vars

\* the fetch of the extension's video was answered 403: the run failed with
\* the result of its first stage only
C24_Witness ==
  \E r \in Runs :
    /\ runs[r].pc = "done" /\ runs[r].outcome = "error"
    /\ runs[r].stage = 2
    /\ runs[r].status = 403
    /\ Len(runs[r].got) = 1
    /\ errorMessage = Some(<<"Video generation failed: ",
                             "Failed to fetch video: ", "403">>)

\* every remote call is answered (the host's key check, generateVideos,
\* getVideosOperation, the asset fetch, generateSpeech, the audio decoder) and
\* the 10 s timer of the polling loop fires; within MaxPolls re-queries the
\* operation is reported done
RunFairness ==
  \A r \in Runs :
    /\ WF_vars(KeyCheckReturn(r))
    /\ WF_vars(OperationReturn(r))
    /\ WF_vars(PollAgain(r))
    /\ WF_vars(FetchReturn(r))
    /\ WF_vars(SpeechReturn(r))
    /\ WF_vars(DecodeReturn(r))

\* the pipeline with the least of the form that starts it: a configuration is
\* taken from the history, a voiceover is recorded, the form is submitted
PipelineNext ==
  \/ MountCheckReturn
  \/ HandleHistorySelect
  \/ HandleRecordingComplete
  \/ HandleSubmit
  \/ \E r \in 1..MaxRuns : KeyCheckReturn(r)
  \/ \E r \in 1..MaxRuns : OperationReturn(r)
  \/ \E r \in 1..MaxRuns : PollAgain(r)
  \/ \E r \in 1..MaxRuns : FetchReturn(r)
  \/ \E r \in 1..MaxRuns : SpeechReturn(r)
  \/ \E r \in 1..MaxRuns : DecodeReturn(r)

SpecPipeline == Init /\ [][PipelineNext]_vars /\ RunFairness

\* run r is past the key check and has set LOADING
Entered(r) == runs[r].began > 0

\* run r has reached the end of handleGenerate, in its try or in its catch
Ended(r) == runs[r].outcome \in {"success", "error"}

\* the flag the operation of run r was last returned with, in the next state
DoneFlag(r) == runs'[r].seen[Len(runs'[r].seen)]

\* the polling loop of generateVideo: the sleep is followed by a query
\* whatever the number of queries so far; an answer that is not done sends the
\* run to sleep again; the run leaves the loop only on an answer that is done
\* or on an error thrown by the call
C25_LoopStep ==
  \A r \in Runs :
    /\ runs[r].pc = "sleep" =>
         /\ runs'[r].pc \in {"sleep", "query"}
         /\ ENABLED PollAgain(r)
    /\ (runs[r].pc \in {"submit", "query"} /\ runs'[r].pc = "sleep") =>
         ~DoneFlag(r)
    /\ (runs[r].pc \in {"submit", "query"}
          /\ runs'[r].pc \notin {"submit", "query", "sleep"}) =>
         \/ runs'[r].pc = "done" /\ runs'[r].outcome = "error"
         \/ runs'[r].pc = "fetch" /\ DoneFlag(r)

\* C25: when every remote call is answered and the operation is reported done
\* after finitely many queries, every run that set LOADING reaches the end of
\* handleGenerate, with SUCCESS or with ERROR; and the polling loop is left
\* only when the service reports done or a call fails, so that a run whose
\* operation is never reported done stays in the loop.
C25_Terminates ==
  /\ \A r \in Runs : Entered(r) ~> Ended(r)
  /\ [][C25_LoopStep]_vars

\* the extension stage's operation was reported done after MaxPolls queries
C25_Witness ==
  \E r \in Runs :
    /\ runs[r].stage = 2
    /\ runs[r].pc = "fetch"
    /\ runs[r].polls = MaxPolls
    /\ Len(runs[r].seen) = MaxPolls + 1

\* ------------------------------------------- the catch of handleGenerate

\* what an awaited call inside the try of handleGenerate can throw: an Error
\* with a message, or a value that is no Error
Thrown ==
  {[isError |-> TRUE, message |-> m] :
     m \in RemoteErrors \cup
           {<<"[400] ", "API_KEY_INVALID">>,
            <<"API key not valid", ". Please pass a valid API key.">>,
            <<"[403] ", "Permission denied", " on resource">>,
            <<"PERMISSION DENIED">>,
            <<"permission denied">>,
            <<"requested entity was not found.">>,
            <<"api_key_invalid">>,
            MsgNoAudio, MsgMissingUri}}
  \cup {[isError |-> FALSE, message |-> <<>>]}

\* lines 123-124: the message the catch works with
ErrorMessage(thrown) ==
  IF thrown.isError THEN thrown.message ELSE <<"An unknown error occurred.">>

\* an awaited call of run r throws: the catch and the finally run
Throw(r) ==
  /\ runs[r].pc \in {"submit", "query", "fetch", "speech", "decode"}
  /\ \E thrown \in Thrown :
       /\ Catch(r, ErrorMessage(thrown), runs[r])
       /\ util' = [fn |-> "catch", run |-> r, thrown |-> thrown]

CatchNext ==
  \/ MountCheckReturn
  \/ HandleHistorySelect
  \/ HandleRecordingComplete
  \/ HandleSubmit
  \/ \E r \in 1..MaxRuns : KeyCheckReturn(r)
  \/ \E r \in 1..MaxRuns : OperationReturn(r)
  \/ \E r \in 1..MaxRuns : PollAgain(r)
  \/ \E r \in 1..MaxRuns : FetchReturn(r)
  \/ \E r \in 1..MaxRuns : SpeechReturn(r)
  \/ \E r \in 1..MaxRuns : DecodeReturn(r)
  \/ \E r \in 1..MaxRuns : Throw(r)

SpecCatch == Init /\ [][CatchNext]_vars

\* a message with one of the known credential substrings: three of them as
\* they are written, 'permission denied' in any letter case
Credential(msg) ==
  \E i \in DOMAIN msg :
    \/ msg[i] \in {"Requested entity was not found.", "API_KEY_INVALID",
                   "API key not valid"}
    \/ msg[i] \in {"permission denied", "Permission denied",
                   "PERMISSION DENIED"}

\* C26: a failure of a run whose error message has a known credential
\* substring ends in ERROR and opens the API key dialog; any other failure
\* ends in ERROR and leaves the dialog as it was.
C26_Step ==
  util' # util =>
    LET r == util'.run
        msg == IF util'.thrown.isError THEN util'.thrown.message ELSE <<>>
    IN  /\ FailsNow(r)
        /\ appState' = ERROR
        /\ errorMessage' # None
        /\ IF Credential(msg)
           THEN showApiKeyDialog'
           ELSE showApiKeyDialog' = showApiKeyDialog

C26_Classified == [][C26_Step]_vars

\* 'Permission denied' inside a longer message opened the dialog on a host
\* without key check
C26_Witness ==
  /\ ~aistudio
  /\ util.fn = "catch"
  /\ util.thrown.message = <<"[403] ", "Permission denied", " on resource">>
  /\ appState = ERROR
  /\ showApiKeyDialog
  /\ runs[util.run].outcome = "error"

\* ----------------------------------------------- claims on the App's state

\* the voiceover buffer a run with request p hands to setVoiceoverBuffer
BufferOf(r, p) ==
  IF VoiceoverBranch(p) = "tts" THEN [kind |-> "tts", run |-> r]
  ELSE IF VoiceoverBranch(p) = "record" THEN [kind |-> "rec", run |-> r]
  ELSE NoBuffer

\* C28 (as claimed): whenever appState is SUCCESS, the video URL shown, the
\* stored blob, the stored video handle and the voiceover buffer are those of
\* one run that has succeeded.
C28_OneRunsResult ==
  appState = SUCCESS =>
    \E r \in Runs :
      /\ runs[r].outcome = "success"
      /\ videoUrl = FinalResult(runs[r].got)
      /\ lastVideoBlob = FinalResult(runs[r].got)
      /\ lastVideoObject = FinalResult(runs[r].got)
      /\ voiceoverBuffer = BufferOf(r, runs[r].params)

\* the same where the host has no key check, so that runs cannot overlap
C28_WithoutKeyCheck == aistudio \/ C28_OneRunsResult

\* ------------------------------------ claims on the store, continued

\* the last call was a saveConfiguration whose localStorage calls succeeded
SavedWithStorageWorking ==
  \/ lastOp = "save"
  \/ lastOp = "save caught" /\ store.kind = "nonlist"

\* getHistory() now returns a list that starts with the saved request
LoadStartsWithSaved ==
  /\ GetHistoryResult(store).isList
  /\ Len(GetHistoryResult(store).items) >= 1
  /\ GetHistoryResult(store).items[1] = Storable(saveArg[1])

\* C29 (as claimed): after saveConfiguration(r) with working storage,
\* getHistory() returns a list whose first entry is r's serializable form,
\* whatever was persisted before: a list, nothing, a text that does not
\* parse, or JSON that is no list.
C29_SaveThenLoad == SavedWithStorageWorking => LoadStartsWithSaved

\* the same for every persisted value but JSON that is no list
C29_UnlessNoList ==
  (SavedWithStorageWorking /\ store.kind # "nonlist") => LoadStartsWithSaved

\* ---------------------------------------------- claims on the key check

\* the key check of run r was answered in this step with no key selected or
\* with an error
NoKeyAnswer(r) ==
  /\ runs[r].pc = "keycheck"
  /\ runs'[r].pc # "keycheck"
  /\ runs'[r].outcome = "nokey" \/ (showApiKeyDialog' /\ ~showApiKeyDialog)

\* C30: when the host answers that no key is selected, or the key check
\* throws, handleGenerate opens the API key dialog and returns: no payload is
\* sent and no speech call made by that run, then or later, and appState, the
\* error message, the last configuration, the loading task and the stored
\* result (video URL, blob, video handle, voiceover buffer) are as before.
C30_Step ==
  \A r \in Runs :
    /\ NoKeyAnswer(r) =>
         /\ showApiKeyDialog'
         /\ runs'[r].pc = "done"
         /\ runs'[r].sent = <<>> /\ runs'[r].got = <<>>
         /\ runs'[r].speech = 0 /\ runs'[r].began = 0
         /\ appState' = appState
         /\ errorMessage' = errorMessage
         /\ lastConfig' = lastConfig
         /\ loadingTask' = loadingTask
         /\ initialFormValues' = initialFormValues
         /\ videoUrl' = videoUrl
         /\ lastVideoBlob' = lastVideoBlob
         /\ lastVideoObject' = lastVideoObject
         /\ voiceoverBuffer' = voiceoverBuffer
         /\ \A q \in Runs \ {r} : runs'[q] = runs[q]
    /\ runs[r].outcome = "nokey" => runs'[r] = runs[r]

C30_NoKeyOnlyOpensDialog == [][C30_Step]_vars

\* a first run was refused for want of a key while the form stayed as it was;
\* the second run has gone on
C30_Witness ==
  /\ runs[1].outcome = "nokey"
  /\ runs[1].sent = <<>>
  /\ showApiKeyDialog
  /\ runs[2].pc = "submit"
  /\ lastConfig = Some(runs[2].params)

====
